---- MODULE Spec2Model ----
(***************************************************************************)
(* A model of xmlrunner (src/src/xmlrunner/__init__.py): the result        *)
(* collector _XMLTestResult with its _TestInfo records, the capturing      *)
(* writers _DelegateIO, the grouping and rendering of the XML reports and   *)
(* XMLTestRunner.run.                                                       *)
(*                                                                         *)
(* Conventions.  Names (suite names, file names, attribute values) are     *)
(* TLA+ strings.  Message, trace and captured text is a sequence of        *)
(* Unicode code points, so that xml_safe_unicode can be computed.  A       *)
(* Python value that may be None is a sequence of length at most one       *)
(* (<<>> is None).  time.time() reads a logical clock that counts          *)
(* milliseconds.  _TestInfo objects are mutable and shared by reference,   *)
(* so they live in the heap `infos' and the lists hold their indices.      *)
(* The console progress stream (self.stream) is not modelled.              *)
(*                                                                         *)
(* Spec and SpecSink are runs of XMLTestRunner.run; SpecSanitize calls     *)
(* xml_safe_unicode and the renderers on every short text, SpecCapture     *)
(* makes every short sequence of calls on one _DelegateIO.                 *)
(***************************************************************************)
EXTENDS Integers, Sequences, FiniteSets, TLC

\* ---------------------------------------------------------------- bounds
MaxTests == 3
MaxClock == 1
MaxWrites == 1
MaxReports == 2
\* The longest text handed to xml_safe_unicode on its own
MaxLen == 3
\* The number of calls made on a _DelegateIO on its own
MaxCalls == 5

\* ------------------------------------------------------ program constants
SUCCESS == 0
FAILURE == 1
ERROR == 2
SKIP == 3

\* ------------------------------------------------------- generic helpers
None == <<>>
Some(v) == <<v>>

RECURSIVE SumSeq(_)
SumSeq(s) == IF s = <<>> THEN 0 ELSE s[1] + SumSeq(Tail(s))

RECURSIVE MapElapsed(_)
MapElapsed(tests) ==
    IF tests = <<>> THEN <<>>
    ELSE <<tests[1].elapsed_time>> \o MapElapsed(Tail(tests))

Count(s, P(_)) == Cardinality({i \in DOMAIN s : P(s[i])})

\* Index of the last occurrence of the one-character string c in s, 0 if none
\* (str.rfind, one-based).
RECURSIVE RFind(_, _, _)
RFind(s, c, i) ==
    IF i = 0 THEN 0
    ELSE IF SubSeq(s, i, i) = c THEN i
    ELSE RFind(s, c, i - 1)

\* str.endswith
EndsWith(s, suffix) ==
    /\ Len(s) >= Len(suffix)
    /\ SubSeq(s, Len(s) - Len(suffix) + 1, Len(s)) = suffix

\* str.lower, on the letters that occur in the model's paths
LowerChar(c) ==
    CASE c = "X" -> "x"
      [] c = "M" -> "m"
      [] c = "L" -> "l"
      [] c = "R" -> "r"
      [] OTHER -> c

RECURSIVE Lower(_)
Lower(s) ==
    IF Len(s) = 0 THEN ""
    ELSE LowerChar(SubSeq(s, 1, 1)) \o Lower(SubSeq(s, 2, Len(s)))

\* '%.3f' % (ms / 1000.0) for a non-negative whole number of milliseconds
Pad3(n) ==
    IF n < 10 THEN "00" \o ToString(n)
    ELSE IF n < 100 THEN "0" \o ToString(n)
    ELSE ToString(n)

Fmt3(ms) == ToString(ms \div 1000) \o "." \o Pad3(ms % 1000)

\* ------------------------------------------------------ xml_safe_unicode
\* INVALID_XML_1_0_UNICODE_RE:
\*   [\x00-\x08\x0B\x0C\x0E-\x1F\uD800-\uDFFF\uFFFE\uFFFF]
INVALID_XML_1_0_UNICODE_RE(c) ==
    \/ c \in 0..8
    \/ c \in {11, 12}
    \/ c \in 14..31
    \/ c \in 55296..57343
    \/ c \in {65534, 65535}

\* Mutant: the character class lacks \x0B and \x0C
xml_safe_unicode_keeping_x0B(base) ==
    SelectSeq(base, LAMBDA c : ~INVALID_XML_1_0_UNICODE_RE(c) \/ c \in {11, 12})

\* The texts of the model are unicode strings, so the decode branch of a
\* byte string is not taken.
xml_safe_unicode(base) ==
    SelectSeq(base, LAMBDA c : ~INVALID_XML_1_0_UNICODE_RE(c))

\* ------------------------------------------------------------ the inputs
\* The test classes and methods the execution engine can run.  A test method
\* object is [module, cls, method]; the engine runs the methods of a class in
\* order and interleaves the classes as it likes.
TestClasses ==
    << [module |-> "__main__", cls |-> "TestA"],
       [module |-> "pkg", cls |-> "TestB"] >>

TestMethods == <<"test_1", "test_2", "test_3", "test_4">>

\* The i-th test of a run whose tests come from the classes pattern[1],
\* pattern[2], ...: the next method of its class
PlannedTest(pattern, i) ==
    [module |-> TestClasses[pattern[i]].module,
     cls |-> TestClasses[pattern[i]].cls,
     method |-> TestMethods[Cardinality({j \in 1..i : pattern[j] = pattern[i]})]]

\* The test suite handed to run, for a pattern of classes
TestSuite(pattern) ==
    [i \in 1..(IF Len(pattern) < MaxTests THEN Len(pattern) ELSE MaxTests) |->
        PlannedTest(pattern, i)]

\* Two suites interleaved, and the second suite first
Interleaved == <<1, 2, 1, 2>>
SecondFirst == <<2, 1, 1, 2>>

\* sys.exc_info() triples handed to addFailure / addError: the exception type's
\* __name__ and str(value); "A\x0B\nB" is a two-line message with a control
\* character.
ErrInfos ==
    { [kind |-> "exc_info", type |-> "AssertionError", value |-> <<65, 11, 10, 66>>] }

\* Reasons handed to addSkip: "S\x0BK".
Reasons == { <<83, 11, 75>> }

\* Texts a test writes to sys.stdout / sys.stderr: "o\x0B".
WriteTexts == { <<111, 11>> }

\* The constructor arguments of XMLTestRunner.
OutputArgs ==
    { [kind |-> "str", path |-> "out"],
      [kind |-> "str", path |-> "out/results.xml"],
      [kind |-> "stream", path |-> ""] }

OutsuffixArgs == { None, Some("X") }

\* time.strftime("%Y%m%d%H%M%S") at construction
Timestamp == "20261101204800"

\* os.getcwd() and os.sep
Cwd == "/w"
Sep == "/"

NoErr == [kind |-> "none", type |-> "", value |-> <<>>]
ReasonErr(reason) == [kind |-> "reason", type |-> "", value |-> reason]

\* TestCase.id(): module.class.method
TestId(test) == test.module \o "." \o test.cls \o "." \o test.method

testcase_name(test_method) ==
    LET module == test_method.module \o "."
    IN  (IF module = "__main__." THEN "" ELSE module) \o test_method.cls

\* TestResult._exc_info_to_string: the formatted trace, "T\n" then the message
exc_info_to_string(err) == <<84, 10>> \o err.value

\* ------------------------------------------------------------ _DelegateIO
\* A writer is a plain file (the writer installed before run; `written' is
\* what it has received) or a _DelegateIO around another writer.
FileWriter(name) ==
    [kind |-> "file", name |-> name, written |-> <<>>,
     captured |-> <<>>, delegate |-> <<>>]

DelegateIO(delegate) ==
    [kind |-> "delegate", name |-> "", written |-> <<>>,
     captured |-> <<>>, delegate |-> <<delegate>>]

RECURSIVE write(_, _)
write(w, text) ==
    IF w.kind = "file" THEN [w EXCEPT !.written = @ \o text]
    ELSE [w EXCEPT !.captured = @ \o text,
                   !.delegate = <<write(@[1], text)>>]

\* Mutant: reset leaves the buffer as it is
reset_without_truncate(w) == w

reset(w) == [w EXCEPT !.captured = <<>>]

\* __getattr__ forwards getvalue to the capture buffer
getvalue(w) == w.captured

\* -------------------------------------------------------------- the state
VARIABLES
    runner,       \* the XMLTestRunner: output, outsuffix, elapsed_times, per_test_output
    pc,           \* where XMLTestRunner.run is
    sys_stdout,   \* sys.stdout
    sys_stderr,   \* sys.stderr
    result,       \* the _XMLTestResult
    infos,        \* the heap of _TestInfo objects
    now,          \* what time.time() returns
    test_suite,   \* the test suite handed to run
    inflight,     \* the test the engine is running, and how far it is
    fs,           \* the file system: directories, files, and whether it fails
    sink,         \* what the stream given as output has received
    reports,      \* history: one entry per generate_reports call
    log,          \* history: one entry per started test
    writes,       \* history: number of writes of the tests so far
    unit_call,    \* a function called on its own: its name, argument, result
    io_calls      \* history: the calls made on a _DelegateIO on its own

vars ==
    << runner, pc, sys_stdout, sys_stderr, result, infos, now, test_suite,
       inflight, fs, sink, reports, log, writes, unit_call, io_calls >>

\* XMLTestRunner.__init__
XMLTestRunner(output, outsuffix, elapsed_times, per_test_output) ==
    [output |-> output,
     outsuffix |-> IF outsuffix # None /\ outsuffix[1] # ""
                   THEN outsuffix[1] ELSE Timestamp,
     elapsed_times |-> elapsed_times,
     per_test_output |-> per_test_output,
     encoding |-> "utf-8"]

\* _XMLTestResult.__init__ (start_time and stop_time do not exist before the
\* first startTest / stopTest; they are 0 here)
XMLTestResult(elapsed_times, per_test_output, encoding) ==
    [successes |-> <<>>, failures |-> <<>>, errors |-> <<>>, skipped |-> <<>>,
     callback |-> None,
     elapsed_times |-> elapsed_times,
     per_test_output |-> per_test_output,
     encoding |-> encoding,
     test_index |-> 0,
     testsRun |-> 0,
     start_time |-> 0,
     stop_time |-> 0]

\* XMLTestRunner._make_result
make_result(self) ==
    XMLTestResult(self.elapsed_times, self.per_test_output, self.encoding)

\* _TestInfo.__init__
TestInfo(test_method, outcome, err, std_output, err_output) ==
    [test_method |-> test_method,
     outcome |-> outcome,
     test_index |-> 0,
     elapsed_time |-> 0,
     err |-> err,
     std_output |-> std_output,
     err_output |-> err_output,
     test_exception_info |->
         IF outcome \in {SUCCESS, SKIP} THEN <<>> ELSE exc_info_to_string(err),
     test_name |-> testcase_name(test_method),
     test_id |-> TestId(test_method)]

\* What every run starts from, whatever the runner and the suite
Start ==
    /\ pc = "new"
    /\ sys_stdout = FileWriter("stdout")
    /\ sys_stderr = FileWriter("stderr")
    /\ result = make_result(runner)
    /\ infos = <<>>
    /\ now = 0
    /\ inflight = None
    /\ sink = <<>>
    /\ reports = <<>>
    /\ log = <<>>
    /\ writes = 0

\* The collector under every timing and capture mode, reporting into a
\* directory of a file system that works
Init ==
    /\ runner \in { XMLTestRunner([kind |-> "str", path |-> "out"], s, e, p) :
                      s \in OutsuffixArgs, e \in BOOLEAN, p \in BOOLEAN }
    /\ test_suite = TestSuite(Interleaved)
    /\ fs = [dirs |-> {Cwd}, files |-> <<>>, failing |-> FALSE]
    /\ Start
    /\ unit_call = None
    /\ io_calls = <<>>

\* The report sink under every destination, on a file system that may fail
InitSink ==
    /\ runner \in { XMLTestRunner(o, Some("X"), TRUE, FALSE) : o \in OutputArgs }
    /\ test_suite \in { TestSuite(Interleaved), TestSuite(SecondFirst) }
    /\ fs = [dirs |-> {Cwd}, files |-> <<>>, failing |-> TRUE]
    /\ Start
    /\ unit_call = None
    /\ io_calls = <<>>

\* ----------------------------------------------------- XMLTestRunner.run
\* _patch_standard_output and _make_result, the first statements of the try
RunPrepare ==
    /\ pc = "new"
    /\ pc' = "testing"
    /\ sys_stdout' = DelegateIO(sys_stdout)
    /\ sys_stderr' = DelegateIO(sys_stderr)
    /\ result' = make_result(runner)
    /\ UNCHANGED << unit_call, io_calls >>
    /\ UNCHANGED << runner, infos, now, test_suite, inflight,
                    fs, sink, reports, log, writes >>

\* An exception (a KeyboardInterrupt, say) leaves the running test and
\* test(result): the engine aborts the run
RunRaise ==
    /\ pc = "testing"
    /\ inflight # None /\ inflight[1].stage = "started"
    /\ pc' = "raising"
    /\ UNCHANGED << unit_call, io_calls >>
    /\ UNCHANGED << runner, sys_stdout, sys_stderr, result, infos, now, test_suite,
                    inflight, fs, sink, reports, log, writes >>

\* _restore_standard_output
restore_standard_output(w) == w.delegate[1]

\* Mutant: no finally clause, the writers are restored on the normal path only
RunWithoutFinally ==
    /\ \/ pc = "raising"
       \/ pc = "reporting" /\ reports # <<>>
    /\ pc' = IF pc = "raising" THEN "raised" ELSE "returned"
    /\ sys_stdout' = IF pc = "raising" THEN sys_stdout
                     ELSE restore_standard_output(sys_stdout)
    /\ sys_stderr' = IF pc = "raising" THEN sys_stderr
                     ELSE restore_standard_output(sys_stderr)
    /\ UNCHANGED << unit_call, io_calls >>
    /\ UNCHANGED << runner, result, infos, now, test_suite, inflight, fs, sink,
                    reports, log, writes >>

\* the finally clause, then the return or the re-raise
RunFinally ==
    /\ \/ pc = "raising"
       \/ pc = "reporting" /\ reports # <<>>
    /\ pc' = IF pc = "raising" THEN "raised" ELSE "returned"
    /\ sys_stdout' = restore_standard_output(sys_stdout)
    /\ sys_stderr' = restore_standard_output(sys_stderr)
    /\ UNCHANGED << unit_call, io_calls >>
    /\ UNCHANGED << runner, result, infos, now, test_suite, inflight, fs, sink,
                    reports, log, writes >>

\* --------------------------------------------------------- the test body
\* Time passes while a test runs
Tick ==
    /\ pc = "testing"
    /\ inflight # None
    /\ now < MaxClock
    /\ now' = now + 1
    /\ UNCHANGED << unit_call, io_calls >>
    /\ UNCHANGED << runner, pc, sys_stdout, sys_stderr, result, infos, test_suite,
                    inflight, fs, sink, reports, log, writes >>

\* Code under test (a test method, or a fixture between two tests) writes to
\* sys.stdout or sys.stderr
Write ==
    /\ pc = "testing"
    /\ IF inflight = None THEN TRUE ELSE inflight[1].stage = "started"
    /\ writes < MaxWrites
    /\ writes' = writes + 1
    /\ \E text \in WriteTexts, channel \in {"stdout", "stderr"} :
         /\ sys_stdout' = IF channel = "stdout" THEN write(sys_stdout, text)
                          ELSE sys_stdout
         /\ sys_stderr' = IF channel = "stderr" THEN write(sys_stderr, text)
                          ELSE sys_stderr
         /\ log' = IF inflight # None /\ inflight[1].stage = "started"
                   THEN [log EXCEPT
                           ![Len(log)].out = IF channel = "stdout"
                                             THEN @ \o text ELSE @,
                           ![Len(log)].err = IF channel = "stderr"
                                             THEN @ \o text ELSE @]
                   ELSE log
    /\ UNCHANGED << unit_call, io_calls >>
    /\ UNCHANGED << runner, pc, result, infos, now, test_suite, inflight, fs, sink,
                    reports >>

\* ---------------------------------------------------------- _XMLTestResult
\* Mutant: the index is taken from the one-based count of started tests
test_finished_from_testsRun(self, test_result) ==
    [self EXCEPT
       !.test_index = test_result.testsRun,
       !.elapsed_time = test_result.stop_time - test_result.start_time]

\* _TestInfo.test_finished
test_finished(self, test_result) ==
    [self EXCEPT
       !.test_index = test_result.test_index,
       !.elapsed_time = test_result.stop_time - test_result.start_time]

\* Mutant: the callback finishes every record of the heap, not only its own
callback_finishing_all(cb, self, heap) ==
    LET finished == [id \in DOMAIN heap |-> test_finished(heap[id], self)]
        cleared  == IF ~self.elapsed_times
                    THEN [self EXCEPT !.start_time = 0, !.stop_time = 0]
                    ELSE self
    IN  <<cleared, finished>>

\* The callback that _prepare_callback builds, run on the collector `self' and
\* the heap `heap': the result is the pair of the two afterwards.
callback(cb, self, heap) ==
    LET finished == [heap EXCEPT ![cb.test_info] = test_finished(@, self)]
        cleared  == IF ~self.elapsed_times
                    THEN [self EXCEPT !.start_time = 0, !.stop_time = 0]
                    ELSE self
    IN  <<cleared, finished>>

\* _prepare_callback: target_list is "successes" or the throw-away list []
prepare_callback(self, test_info, target_list, verbose_str, short_str) ==
    LET appended == IF target_list = "successes"
                    THEN [self EXCEPT !.successes = Append(@, test_info)]
                    ELSE self
    IN  [appended EXCEPT
           !.callback = Some([test_info |-> test_info,
                              verbose_str |-> verbose_str,
                              short_str |-> short_str])]

\* startTest: time.time(), then TestResult.startTest
startTest(self, time) ==
    [self EXCEPT !.start_time = time, !.testsRun = @ + 1]

\* Mutant: the callback is not cleared once it has been called
stopTest_keeping_callback(self, heap, time) ==
    LET stopped == [self EXCEPT !.stop_time = time]
        called  == IF stopped.callback # None
                   THEN callback(stopped.callback[1], stopped, heap)
                   ELSE <<stopped, heap>>
    IN  << [called[1] EXCEPT !.test_index = @ + 1], called[2] >>

\* stopTest on the collector and the heap
stopTest(self, heap, time) ==
    LET stopped == [self EXCEPT !.stop_time = time]
        called  == IF stopped.callback # None
                   THEN callback(stopped.callback[1], stopped, heap)
                   ELSE <<stopped, heap>>
    IN  << [called[1] EXCEPT !.callback = None, !.test_index = @ + 1],
           called[2] >>

\* The std_output / err_output arguments of _TestInfo in the four add methods
std_output_arg(self, out) ==
    IF self.per_test_output THEN Some(getvalue(out)) ELSE None

\* Mutant: the add methods take the snapshot and leave the buffers as they are
reset_after_never(self, w) == w

\* sys.stdout.reset() / sys.stderr.reset() in the four add methods
reset_after(self, w) == IF self.per_test_output THEN reset(w) ELSE w

\* The four add methods come in two parts: the _TestInfo they build (...Info),
\* and what they do to the collector once the record has the heap index id.
addSuccess(self, id) ==
    prepare_callback(self, id, "successes", "OK", ".")

addSuccessInfo(self, test, out, err) ==
    TestInfo(test, SUCCESS, NoErr, std_output_arg(self, out),
             std_output_arg(self, err))

addFailureInfo(self, test, exc, out, err) ==
    TestInfo(test, ERROR, exc, std_output_arg(self, out),
             std_output_arg(self, err))

addFailure(self, exc, id) ==
    prepare_callback(
        [self EXCEPT !.errors = Append(@, <<id, exc_info_to_string(exc)>>)],
        id, "none", "FAIL", "F")

addErrorInfo(self, test, exc, out, err) ==
    TestInfo(test, ERROR, exc, std_output_arg(self, out),
             std_output_arg(self, err))

addError(self, exc, id) ==
    prepare_callback(
        [self EXCEPT !.errors = Append(@, <<id, exc_info_to_string(exc)>>)],
        id, "none", "ERROR", "E")

\* Mutant: a skipped test is recorded as an errored one
addSkipInfoAsError(self, test, reason, out, err) ==
    TestInfo(test, ERROR, ReasonErr(reason), std_output_arg(self, out),
             std_output_arg(self, err))

addSkipInfo(self, test, reason, out, err) ==
    TestInfo(test, SKIP, ReasonErr(reason), std_output_arg(self, out),
             std_output_arg(self, err))

addSkip(self, reason, id) ==
    prepare_callback(
        [self EXCEPT !.skipped = Append(@, <<id, reason>>)],
        id, "none", "SKIP", "S")

\* ------------------------------------------------- the lifecycle calls
StartTest ==
    /\ pc = "testing"
    /\ inflight = None
    /\ Len(log) < Len(test_suite)
    /\ LET test == test_suite[Len(log) + 1]
       IN  /\ inflight' = Some([test |-> test, stage |-> "started"])
           /\ log' = Append(log, [test |-> test, call |-> "", info |-> 0,
                                  arg |-> <<>>, out |-> <<>>, err |-> <<>>,
                                  stop_no |-> 0])
    /\ result' = startTest(result, now)
    /\ UNCHANGED << unit_call, io_calls >>
    /\ UNCHANGED << runner, pc, sys_stdout, sys_stderr, infos, now, test_suite, fs,
                    sink, reports, writes >>

\* What the four outcome calls share: the record is allocated, the buffers
\* are reset in per-test capture mode, the engine moves on.
Outcome(call, arg, info, self) ==
    /\ infos' = Append(infos, info)
    /\ result' = self
    /\ sys_stdout' = reset_after(result, sys_stdout)
    /\ sys_stderr' = reset_after(result, sys_stderr)
    /\ inflight' = Some([inflight[1] EXCEPT !.stage = "outcome"])
    /\ log' = [log EXCEPT ![Len(log)].call = call,
                          ![Len(log)].arg = arg,
                          ![Len(log)].info = Len(infos) + 1]
    /\ UNCHANGED << unit_call, io_calls >>
    /\ UNCHANGED << runner, pc, now, test_suite, fs, sink, reports, writes >>

AddSuccess ==
    /\ pc = "testing"
    /\ inflight # None /\ inflight[1].stage = "started"
    /\ LET test == inflight[1].test
       IN  Outcome("addSuccess", <<>>,
                   addSuccessInfo(result, test, sys_stdout, sys_stderr),
                   addSuccess(result, Len(infos) + 1))

AddFailure ==
    /\ pc = "testing"
    /\ inflight # None /\ inflight[1].stage = "started"
    /\ \E exc \in ErrInfos :
         LET test == inflight[1].test
         IN  Outcome("addFailure", exc.value,
                     addFailureInfo(result, test, exc, sys_stdout, sys_stderr),
                     addFailure(result, exc, Len(infos) + 1))

AddError ==
    /\ pc = "testing"
    /\ inflight # None /\ inflight[1].stage = "started"
    /\ \E exc \in ErrInfos :
         LET test == inflight[1].test
         IN  Outcome("addError", exc.value,
                     addErrorInfo(result, test, exc, sys_stdout, sys_stderr),
                     addError(result, exc, Len(infos) + 1))

AddSkip ==
    /\ pc = "testing"
    /\ inflight # None /\ inflight[1].stage = "started"
    /\ \E reason \in Reasons :
         LET test == inflight[1].test
         IN  Outcome("addSkip", reason,
                     addSkipInfo(result, test, reason, sys_stdout, sys_stderr),
                     addSkip(result, reason, Len(infos) + 1))

StopTest ==
    /\ pc = "testing"
    /\ inflight # None /\ inflight[1].stage = "outcome"
    /\ LET after == stopTest(result, infos, now)
       IN  /\ result' = after[1]
           /\ infos' = after[2]
    /\ inflight' = None
    /\ log' = [log EXCEPT ![Len(log)].stop_no =
                 Cardinality({i \in DOMAIN log : log[i].stop_no > 0}) + 1]
    /\ UNCHANGED << unit_call, io_calls >>
    /\ UNCHANGED << runner, pc, sys_stdout, sys_stderr, now, test_suite, fs, sink,
                    reports, writes >>

\* ------------------------------------------------- _get_info_by_testcase
\* list.sort(key=...) is stable: x goes after every element whose key is not
\* greater than its own.
RECURSIVE InsertByIndex(_, _, _)
InsertByIndex(sorted, x, heap) ==
    IF sorted = <<>> THEN <<x>>
    ELSE IF heap[sorted[1]].test_index <= heap[x].test_index
         THEN <<sorted[1]>> \o InsertByIndex(Tail(sorted), x, heap)
         ELSE <<x>> \o sorted

\* Mutant: the list is left in bucket order
Unsorted(list, heap) == list

RECURSIVE SortByIndex(_, _)
SortByIndex(list, heap) ==
    IF list = <<>> THEN <<>>
    ELSE InsertByIndex(SortByIndex(SubSeq(list, 1, Len(list) - 1), heap),
                       list[Len(list)], heap)

\* Mutant: a new name goes to the front of the dictionary
RECURSIVE DictAppendFront(_, _, _)
DictAppendFront(dict, name, info) ==
    IF \A x \in DOMAIN dict : dict[x].name # name
    THEN << [name |-> name, tests |-> <<info>>] >> \o dict
    ELSE IF dict[1].name = name
         THEN << [dict[1] EXCEPT !.tests = Append(@, info)] >> \o Tail(dict)
         ELSE << dict[1] >> \o DictAppendFront(Tail(dict), name, info)

\* tests_by_testcase[name].append(info) on an OrderedDict, kept as a sequence
\* of [name, tests] in insertion order
RECURSIVE DictAppend(_, _, _)
DictAppend(dict, name, info) ==
    IF dict = <<>> THEN << [name |-> name, tests |-> <<info>>] >>
    ELSE IF dict[1].name = name
         THEN << [dict[1] EXCEPT !.tests = Append(@, info)] >> \o Tail(dict)
         ELSE << dict[1] >> \o DictAppend(Tail(dict), name, info)

RECURSIVE GroupByName(_, _, _)
GroupByName(dict, list, heap) ==
    IF list = <<>> THEN dict
    ELSE GroupByName(DictAppend(dict, heap[list[1]].test_name, list[1]),
                     Tail(list), heap)

\* The first components of a list of tuples
Firsts(tuples) == [i \in DOMAIN tuples |-> tuples[i][1]]

\* Mutant: the skipped tests are left out of the report
get_info_without_skipped(self, heap) ==
    LET testcase_list ==
            self.successes \o Firsts(self.failures) \o Firsts(self.errors)
    IN  GroupByName(<<>>, SortByIndex(testcase_list, heap), heap)

get_info_by_testcase(self, heap) ==
    LET testcase_list ==
            self.successes \o Firsts(self.failures) \o Firsts(self.errors)
                \o Firsts(self.skipped)
    IN  GroupByName(<<>>, SortByIndex(testcase_list, heap), heap)

\* ------------------------------------------------------------- rendering
\* An XML node is [tag, attrs, children]; a CDATA section has tag "#cdata".
Element(tag, attrs, children) ==
    [tag |-> tag, attrs |-> attrs, children |-> children]

CDATASection(data) == Element("#cdata", [data |-> data], <<>>)

\* _report_testsuite: the testsuite element and its rollups; tests are records
report_testsuite(suite_name, outsuffix, tests) ==
    Element("testsuite",
            [name |-> suite_name \o "-" \o outsuffix,
             tests |-> ToString(Len(tests)),
             time |-> Fmt3(SumSeq(MapElapsed(tests))),
             failures |-> ToString(Count(tests, LAMBDA e : e.outcome = FAILURE)),
             errors |-> ToString(Count(tests, LAMBDA e : e.outcome = ERROR))],
            <<>>)

\* _test_method_name: test_id.split('.')[-1]
test_method_name(test_id) ==
    SubSeq(test_id, RFind(test_id, ".", Len(test_id)) + 1, Len(test_id))

\* ('failure', 'error', 'skipped')[outcome - 1]
elem_name(outcome) == <<"failure", "error", "skipped">>[outcome]

\* The diagnostic block of a test that did not succeed
report_diagnostic(test_result) ==
    IF test_result.outcome # SKIP
    THEN Element(elem_name(test_result.outcome),
                 [type |-> test_result.err.type,
                  message |-> xml_safe_unicode(test_result.err.value)],
                 << CDATASection(xml_safe_unicode(test_result.test_exception_info)) >>)
    ELSE Element(elem_name(test_result.outcome),
                 [type |-> "skip",
                  message |-> xml_safe_unicode(test_result.err.value)],
                 <<>>)

\* if test_result.get_std_output(): None and '' are both false
Truthy(opt) == opt # None /\ opt[1] # <<>>

\* _report_testcase
report_testcase(suite_name, test_result) ==
    Element("testcase",
            [classname |-> suite_name,
             name |-> test_method_name(test_result.test_id),
             time |-> Fmt3(test_result.elapsed_time)],
            (IF test_result.outcome # SUCCESS
             THEN << report_diagnostic(test_result) >> ELSE <<>>)
            \o (IF Truthy(test_result.std_output)
                THEN << Element("system-out", <<>>,
                          << CDATASection(xml_safe_unicode(test_result.std_output[1])) >>) >>
                ELSE <<>>)
            \o (IF Truthy(test_result.err_output)
                THEN << Element("system-err", <<>>,
                          << CDATASection(xml_safe_unicode(test_result.err_output[1])) >>) >>
                ELSE <<>>))

\* _report_output: the aggregate captured output of sys.stdout / sys.stderr
report_output(out, err) ==
    << Element("system-out", <<>>, << CDATASection(xml_safe_unicode(getvalue(out))) >>),
       Element("system-err", <<>>, << CDATASection(xml_safe_unicode(getvalue(err))) >>) >>

\* Mutant: the aggregate output is reported whatever the capture mode
add_xml_report_always_output(self, test_runner, suite, tests, out, err) ==
    LET testsuite == report_testsuite(suite, test_runner.outsuffix, tests)
    IN  [testsuite EXCEPT !.children =
           [i \in DOMAIN tests |-> report_testcase(suite, tests[i])]
           \o report_output(out, err)]

\* _add_xml_report: the testsuite element with its children, which the code
\* appends to `node'; tests are records
add_xml_report(self, test_runner, suite, tests, out, err) ==
    LET testsuite == report_testsuite(suite, test_runner.outsuffix, tests)
    IN  [testsuite EXCEPT !.children =
           [i \in DOMAIN tests |-> report_testcase(suite, tests[i])]
           \o (IF ~self.per_test_output THEN report_output(out, err) ELSE <<>>)]

\* Document() with its children, and doc.toprettyxml(indent, encoding): the
\* XML declaration names the encoding, the tree follows
Document(children) == Element("#document", <<>>, children)

toprettyxml(doc, encoding) == [encoding |-> encoding, document |-> doc]

\* ------------------------------------------------------- the file system
\* os.path.abspath of a normalised path
abspath(path) ==
    IF Len(path) > 0 /\ SubSeq(path, 1, 1) = Sep THEN path
    ELSE Cwd \o Sep \o path

\* os.path.split: <<head, tail>> around the last separator
split(path) ==
    LET i == RFind(path, Sep, Len(path))
    IN  << IF i <= 1 THEN SubSeq(path, 1, i) ELSE SubSeq(path, 1, i - 1),
           SubSeq(path, i + 1, Len(path)) >>

\* os.path.splitext: <<root, ext>> around the last dot of the last component
splitext(path) ==
    LET dot == RFind(path, ".", Len(path))
        sep == RFind(path, Sep, Len(path))
    IN  IF dot > sep + 1
        THEN << SubSeq(path, 1, dot - 1), SubSeq(path, dot, Len(path)) >>
        ELSE << path, "" >>

\* os.path.exists
exists(filesys, path) ==
    \/ abspath(path) \in filesys.dirs
    \/ abspath(path) \in DOMAIN filesys.files

\* The directory and the ancestors of it that os.makedirs has to create
RECURSIVE Missing(_, _)
Missing(filesys, path) ==
    IF path = "" \/ path = Sep \/ path \in filesys.dirs THEN {}
    ELSE {path} \cup Missing(filesys, split(path)[1])

\* The operations of generate_reports on the file system and on the stream
MakedirsOp(path) == [op |-> "makedirs", path |-> abspath(path), content |-> <<>>]
OpenOp(path) == [op |-> "open", path |-> abspath(path), content |-> <<>>]
WriteOp(path, content) ==
    [op |-> "write", path |-> abspath(path), content |-> <<content>>]
\* Mutant: the document for the stream goes to a file of its own
StreamWriteOpIntoFile(content) == OpenOp("report.xml")

StreamWriteOp(content) ==
    [op |-> "stream_write", path |-> "", content |-> <<content>>]

\* One operation on the pair [fs, sink].  open(filename, 'wb') creates or
\* truncates the file; a file holds the chunks written to it.
ApplyOp(io, op) ==
    CASE op.op = "makedirs" ->
           [io EXCEPT !.fs.dirs = @ \cup Missing(io.fs, op.path)]
      [] op.op = "open" ->
           [io EXCEPT !.fs.files =
              [q \in DOMAIN @ \cup {op.path} |->
                 IF q = op.path THEN <<>> ELSE @[q]]]
      [] op.op = "write" ->
           [io EXCEPT !.fs.files =
              [q \in DOMAIN @ |-> IF q = op.path THEN @[q] \o op.content ELSE @[q]]]
      [] op.op = "stream_write" ->
           [io EXCEPT !.sink = @ \o op.content]

RECURSIVE ApplyOps(_, _, _)
ApplyOps(io, ops, n) ==
    IF n = 0 THEN io
    ELSE ApplyOp(ApplyOps(io, ops, n - 1), ops[n])

\* ------------------------------------------------------ generate_reports
\* The records of a group
Deref(tests, heap) == [i \in DOMAIN tests |-> heap[tests[i]]]

\* A standalone document of one suite, serialised
standalone(self, heap, test_runner, group, out, err) ==
    toprettyxml(
        Document(<< add_xml_report(self, test_runner, group.name,
                                   Deref(group.tests, heap), out, err) >>),
        self.encoding)

\* The combined document of single-file mode, serialised
combined(self, heap, test_runner, all_results, out, err) ==
    toprettyxml(
        Document(<< Element("testsuites", <<>>,
            [i \in DOMAIN all_results |->
                add_xml_report(self, test_runner, all_results[i].name,
                               Deref(all_results[i].tests, heap), out, err)]) >>),
        self.encoding)

\* Mutant: the file name does not name the suite
directory_filename_without_suite(test_runner, suite) ==
    test_runner.output.path \o Sep \o "TEST-" \o test_runner.outsuffix \o ".xml"

\* Directory mode: the name of the file of a suite
directory_filename(test_runner, suite) ==
    IF test_runner.outsuffix # ""
    THEN test_runner.output.path \o Sep \o "TEST-" \o suite \o "-"
             \o test_runner.outsuffix \o ".xml"
    ELSE test_runner.output.path \o Sep \o "TEST-" \o suite \o ".xml"

\* Single-file mode: the name of the one file
single_filename(test_runner) ==
    LET parts == splitext(abspath(test_runner.output.path))
    IN  IF test_runner.outsuffix # ""
        THEN parts[1] \o "-" \o test_runner.outsuffix \o parts[2]
        ELSE parts[1] \o parts[2]

IsDirectoryMode(test_runner) ==
    /\ test_runner.output.kind = "str"
    /\ ~EndsWith(Lower(test_runner.output.path), ".xml")

IsSingleFileMode(test_runner) ==
    /\ test_runner.output.kind = "str"
    /\ EndsWith(Lower(test_runner.output.path), ".xml")

RECURSIVE DirectoryOps(_, _, _, _, _, _)
DirectoryOps(self, heap, test_runner, groups, out, err) ==
    IF groups = <<>> THEN <<>>
    ELSE << OpenOp(directory_filename(test_runner, groups[1].name)),
            WriteOp(directory_filename(test_runner, groups[1].name),
                    standalone(self, heap, test_runner, groups[1], out, err)) >>
         \o DirectoryOps(self, heap, test_runner, Tail(groups), out, err)

\* generate_reports, as the sequence of its operations on the file system and
\* on the stream, given the file system it finds
generate_reports(self, heap, test_runner, out, err, filesys) ==
    LET all_results == get_info_by_testcase(self, heap)
    IN  IF IsDirectoryMode(test_runner)
        THEN (IF ~exists(filesys, test_runner.output.path)
              THEN << MakedirsOp(test_runner.output.path) >> ELSE <<>>)
             \o DirectoryOps(self, heap, test_runner, all_results, out, err)
        ELSE IF IsSingleFileMode(test_runner)
        THEN (IF ~exists(filesys, split(abspath(test_runner.output.path))[1])
              THEN << MakedirsOp(split(abspath(test_runner.output.path))[1]) >>
              ELSE <<>>)
             \o << OpenOp(single_filename(test_runner)),
                   WriteOp(single_filename(test_runner),
                           combined(self, heap, test_runner, all_results, out, err)) >>
        ELSE [i \in DOMAIN all_results |->
                StreamWriteOp(standalone(self, heap, test_runner,
                                         all_results[i], out, err))]

\* result.generate_reports(self) at the end of run, or called again by the
\* caller while the capturing writers are installed.  fault = 0: every
\* operation succeeds; fault = k, on a file system that fails: the k-th
\* operation raises and has no effect.
\* generate_reports assigns nothing on the collector, the heap or the writers.
GenerateWith(out_after, err_after) ==
    /\ \/ pc = "testing" /\ inflight = None /\ Len(log) = Len(test_suite)
       \/ pc = "reporting"
    /\ Len(reports) < MaxReports
    /\ LET ops == generate_reports(result, infos, runner, sys_stdout,
                                   sys_stderr, fs)
       IN  \E fault \in (IF fs.failing THEN 0..Len(ops) ELSE {0}) :
             LET done == IF fault = 0 THEN Len(ops) ELSE fault - 1
                 io   == ApplyOps([fs |-> fs, sink |-> sink], ops, done)
             IN  /\ fs' = io.fs
                 /\ sink' = io.sink
                 /\ pc' = IF fault = 0 THEN "reporting" ELSE "raising"
                 /\ reports' = Append(reports,
                        [ops |-> ops, done |-> done, fault |-> fault,
                         before |-> << result, infos, sys_stdout, sys_stderr >>,
                         fs_before |-> fs, sink_before |-> sink])
    /\ sys_stdout' = out_after
    /\ sys_stderr' = err_after
    /\ UNCHANGED << unit_call, io_calls >>
    /\ UNCHANGED << runner, result, infos, now, test_suite, inflight, log, writes >>

\* Mutant: a fault of an operation is caught and the call carries on with
\* the operations after it, then returns normally
GenerateReportsSwallowing ==
    /\ \/ pc = "testing" /\ inflight = None /\ Len(log) = Len(test_suite)
       \/ pc = "reporting"
    /\ Len(reports) < MaxReports
    /\ LET ops == generate_reports(result, infos, runner, sys_stdout,
                                   sys_stderr, fs)
       IN  \E fault \in (IF fs.failing THEN 0..Len(ops) ELSE {0}) :
             LET done == IF fault = 0 THEN Len(ops) ELSE fault - 1
                 kept == IF fault = 0 THEN ops
                         ELSE SubSeq(ops, 1, fault - 1)
                                \o SubSeq(ops, fault + 1, Len(ops))
                 io   == ApplyOps([fs |-> fs, sink |-> sink], kept, Len(kept))
             IN  /\ fs' = io.fs
                 /\ sink' = io.sink
                 /\ pc' = "reporting"
                 /\ reports' = Append(reports,
                        [ops |-> ops, done |-> done, fault |-> fault,
                         before |-> << result, infos, sys_stdout, sys_stderr >>,
                         fs_before |-> fs, sink_before |-> sink])
    /\ UNCHANGED << unit_call, io_calls >>
    /\ UNCHANGED << runner, sys_stdout, sys_stderr, result, infos, now,
                    test_suite, inflight, log, writes >>

\* Mutant: the capture buffers are reset once they have been reported
GenerateReportsResetting == GenerateWith(reset(sys_stdout), reset(sys_stderr))

GenerateReports == GenerateWith(sys_stdout, sys_stderr)

Next ==
    \/ RunPrepare
    \/ StartTest
    \/ Tick
    \/ Write
    \/ AddSuccess
    \/ AddFailure
    \/ AddError
    \/ AddSkip
    \/ StopTest
    \/ RunRaise
    \/ GenerateReports
    \/ RunFinally

Spec == Init /\ [][Next]_vars

SpecSink == InitSink /\ [][Next]_vars

\* ------------------------------------------- xml_safe_unicode on its own
\* The code points of the texts: the neighbours of every boundary of the
\* character class of INVALID_XML_1_0_UNICODE_RE
\* (\x08|\t, \n|\x0B, \x0C|\r|\x0E, \x1F|space, \uD7FF|\uD800, \uDFFF|\uE000,
\* \uFFFD|\uFFFE, \uFFFF|U+10000)
CodePoints ==
    { 8, 9, 10, 11, 12, 13, 14, 31, 32, 55295, 55296, 57343, 57344,
      65533, 65534, 65535, 65536 }

\* The bytes of the byte strings: \x0B, "A", the two bytes of U+00E9 in
\* UTF-8 (\xC3 \xA9), and \xFF, which no UTF-8 text contains
Bytes == { 11, 65, 195, 169, 255 }

\* All sequences over a set, up to a length
RECURSIVE SeqsUpTo(_, _)
SeqsUpTo(S, n) ==
    IF n = 0 THEN { <<>> }
    ELSE LET shorter == SeqsUpTo(S, n - 1)
         IN  shorter \cup { Append(q, c) : q \in shorter, c \in S }

\* base.decode('utf-8') of a byte string whose lead bytes are below \xE0
\* (one- and two-byte sequences): Some(text), or None for UnicodeDecodeError
RECURSIVE decode(_)
decode(base) ==
    IF base = <<>> THEN Some(<<>>)
    ELSE IF base[1] < 128
         THEN LET rest == decode(Tail(base))
              IN  IF rest = None THEN None ELSE Some(<<base[1]>> \o rest[1])
    ELSE IF /\ base[1] \in 194..223
            /\ Len(base) >= 2
            /\ base[2] \in 128..191
         THEN LET rest == decode(Tail(Tail(base)))
              IN  IF rest = None THEN None
                  ELSE Some(<< (base[1] - 192) * 64 + (base[2] - 128) >> \o rest[1])
    ELSE None

\* xml_safe_unicode of a byte string: the text is decoded first
xml_safe_unicode_of_bytes(base) ==
    IF decode(base) = None THEN None
    ELSE Some(xml_safe_unicode(decode(base)[1]))

\* A call that has returned a value, and one that has raised
Returned(value) == Some([raised |-> FALSE, value |-> value])
Raised == Some([raised |-> TRUE, value |-> <<>>])

\* xml_safe_unicode(base) is called
CallXmlSafeUnicode ==
    /\ unit_call.fn = ""
    /\ unit_call' =
         [unit_call EXCEPT
            !.fn = "xml_safe_unicode",
            !.ret = IF unit_call.kind = "text"
                    THEN Returned(xml_safe_unicode(unit_call.arg))
                    ELSE IF xml_safe_unicode_of_bytes(unit_call.arg) = None
                         THEN Raised
                         ELSE Returned(xml_safe_unicode_of_bytes(unit_call.arg)[1])]
    /\ UNCHANGED << runner, pc, sys_stdout, sys_stderr, result, infos, now,
                    test_suite, inflight, fs, sink, reports, log, writes,
                    io_calls >>

\* _report_testcase renders a record whose message (or reason), trace and
\* captured output are the text
CallReportTestcase ==
    /\ unit_call.fn = ""
    /\ unit_call.kind = "text"
    /\ \E outcome \in {SUCCESS, ERROR, SKIP} :
         LET test == [module |-> "__main__", cls |-> "TestA", method |-> "test_1"]
             err  == CASE outcome = SUCCESS -> NoErr
                       [] outcome = ERROR ->
                            [kind |-> "exc_info", type |-> "ValueError",
                             value |-> unit_call.arg]
                       [] outcome = SKIP -> ReasonErr(unit_call.arg)
             info == TestInfo(test, outcome, err, Some(unit_call.arg),
                              Some(unit_call.arg))
         IN  unit_call' =
               [unit_call EXCEPT
                  !.fn = "_report_testcase",
                  !.ret = Returned(report_testcase(testcase_name(test), info))]
    /\ UNCHANGED << runner, pc, sys_stdout, sys_stderr, result, infos, now,
                    test_suite, inflight, fs, sink, reports, log, writes,
                    io_calls >>

\* _report_output renders the aggregate output, when the text is what the
\* capturing writers hold
CallReportOutput ==
    /\ unit_call.fn = ""
    /\ unit_call.kind = "text"
    /\ unit_call' =
         [unit_call EXCEPT
            !.fn = "_report_output",
            !.ret = Returned(
               Element("testsuite", <<>>,
                  report_output(
                     write(DelegateIO(FileWriter("stdout")), unit_call.arg),
                     write(DelegateIO(FileWriter("stderr")), unit_call.arg))))]
    /\ UNCHANGED << runner, pc, sys_stdout, sys_stderr, result, infos, now,
                    test_suite, inflight, fs, sink, reports, log, writes,
                    io_calls >>

\* Every text and every byte string up to MaxLen, before the call
InitSanitize ==
    /\ runner = XMLTestRunner([kind |-> "stream", path |-> ""], None, TRUE, TRUE)
    /\ test_suite = <<>>
    /\ fs = [dirs |-> {Cwd}, files |-> <<>>, failing |-> FALSE]
    /\ Start
    /\ unit_call \in
         { [fn |-> "", kind |-> "text", arg |-> t, ret |-> None] :
             t \in SeqsUpTo(CodePoints, MaxLen) }
         \cup
         { [fn |-> "", kind |-> "bytes", arg |-> b, ret |-> None] :
             b \in SeqsUpTo(Bytes, MaxLen) }
    /\ io_calls = <<>>

NextSanitize ==
    \/ CallXmlSafeUnicode
    \/ CallReportTestcase
    \/ CallReportOutput

SpecSanitize == InitSanitize /\ [][NextSanitize]_vars

\* ------------------------------------------------ _DelegateIO on its own
\* The texts written: "a" and "b\n"
CaptureTexts == { <<97>>, <<98, 10>> }

\* sys.stdout.write(text) on the capturing writer
CallWrite ==
    /\ Len(io_calls) < MaxCalls
    /\ \E text \in CaptureTexts :
         /\ sys_stdout' = write(sys_stdout, text)
         /\ io_calls' = Append(io_calls, [op |-> "write", text |-> text])
    /\ UNCHANGED << runner, pc, sys_stderr, result, infos, now, test_suite,
                    inflight, fs, sink, reports, log, writes, unit_call >>

\* sys.stdout.reset() on the capturing writer
CallReset ==
    /\ Len(io_calls) < MaxCalls
    /\ sys_stdout' = reset(sys_stdout)
    /\ io_calls' = Append(io_calls, [op |-> "reset", text |-> <<>>])
    /\ UNCHANGED << runner, pc, sys_stderr, result, infos, now, test_suite,
                    inflight, fs, sink, reports, log, writes, unit_call >>

\* A _DelegateIO just constructed around a writer that has received nothing
InitCapture ==
    /\ runner = XMLTestRunner([kind |-> "stream", path |-> ""], None, TRUE, TRUE)
    /\ test_suite = <<>>
    /\ fs = [dirs |-> {Cwd}, files |-> <<>>, failing |-> FALSE]
    /\ pc = "new"
    /\ sys_stdout = DelegateIO(FileWriter("stdout"))
    /\ sys_stderr = FileWriter("stderr")
    /\ result = make_result(runner)
    /\ infos = <<>>
    /\ now = 0
    /\ inflight = None
    /\ sink = <<>>
    /\ reports = <<>>
    /\ log = <<>>
    /\ writes = 0
    /\ unit_call = None
    /\ io_calls = <<>>

NextCapture ==
    \/ CallWrite
    \/ CallReset

SpecCapture == InitCapture /\ [][NextCapture]_vars

\* ======================================================================
\* What the claims are stated with
\* ======================================================================
\* The number a decimal attribute value denotes
ParseNat(str) == CHOOSE k \in 0..(MaxTests + 1) : ToString(k) = str

\* The tests that have been stopped, as indices of the log
Stopped == {i \in DOMAIN log : log[i].stop_no > 0}

\* The serialised documents that a generate_reports call has written, in order
RECURSIVE Contents(_, _)
Contents(ops, n) ==
    IF n = 0 THEN <<>>
    ELSE Contents(ops, n - 1) \o ops[n].content

Produced(report) == Contents(report.ops, report.done)

\* The testsuite elements of a serialised document
SuitesOf(xml_content) ==
    LET root == xml_content.document.children[1]
    IN  IF root.tag = "testsuites" THEN root.children ELSE <<root>>

RECURSIVE SuitesOfAll(_)
SuitesOfAll(contents) ==
    IF contents = <<>> THEN <<>>
    ELSE SuitesOf(contents[1]) \o SuitesOfAll(Tail(contents))

\* The testsuite elements of all documents of a generate_reports call
ProducedSuites(report) == SuitesOfAll(Produced(report))

TestcasesOf(testsuite) ==
    SelectSeq(testsuite.children, LAMBDA e : e.tag = "testcase")

\* The testcase entries of test number i of the log in a list of testsuites,
\* as pairs <<suite number, child number>>
EntriesOf(suites, i) ==
    { sc \in { <<x, y>> \in (DOMAIN suites) \X (1..(MaxTests + 3)) :
                 y \in DOMAIN suites[x].children } :
        LET e == suites[sc[1]].children[sc[2]]
        IN  /\ e.tag = "testcase"
            /\ e.attrs.classname = testcase_name(log[i].test)
            /\ e.attrs.name = log[i].test.method }

\* The complete (fault-free) generate_reports calls
Complete == {k \in DOMAIN reports : reports[k].fault = 0}

\* C1: after generate_reports the `tests' attributes of all produced suite
\* documents add up to the number of stop calls, every suite's `tests' is the
\* number of its testcase entries, and every stopped test has exactly one
\* testcase entry in all the documents together.
C1_TestsSumEqualsStops ==
    \A k \in Complete :
        LET suites == ProducedSuites(reports[k])
        IN  /\ SumSeq([x \in DOMAIN suites |-> ParseNat(suites[x].attrs.tests)])
                 = Cardinality(Stopped)
            /\ \A x \in DOMAIN suites :
                 ParseNat(suites[x].attrs.tests) = Len(TestcasesOf(suites[x]))
            /\ \A i \in Stopped : Cardinality(EntriesOf(suites, i)) = 1

\* C1 witness: a complete report of a run of three tests in two suites, with
\* a skipped, an errored and a passed test
C1_Witness ==
    \E k \in Complete :
        /\ Cardinality(Stopped) = 3
        /\ Len(ProducedSuites(reports[k])) = 2
        /\ {log[i].call : i \in DOMAIN log} = {"addSkip", "addError", "addSuccess"}

\* C2: the record of the k-th test to be stopped has execution index k-1, the
\* indices of the stopped tests are exactly 0..N-1, and a record whose test
\* has not been stopped still has the constructor's index: the index is
\* assigned in stopTest only.
C2_IndexIsCompletionOrder ==
    /\ \A i \in Stopped : infos[log[i].info].test_index = log[i].stop_no - 1
    /\ {infos[log[i].info].test_index : i \in Stopped}
         = 0..(Cardinality(Stopped) - 1)
    /\ \A i, j \in Stopped :
         i # j => infos[log[i].info].test_index # infos[log[j].info].test_index
    /\ \A i \in DOMAIN log :
         (log[i].info # 0 /\ log[i].stop_no = 0)
            => infos[log[i].info].test_index = 0
    /\ result.test_index = Cardinality(Stopped)

\* C2 witness: three stopped tests with interleaved outcomes, the last one
\* not a success, and a record with index 2
C2_Witness ==
    /\ Cardinality(Stopped) = 3
    /\ log[1].call = "addError" /\ log[2].call = "addSuccess"
    /\ log[3].call = "addSkip"
    /\ infos[log[3].info].test_index = 2

\* The tests of a suite, as indices of the log
TestsOfSuite(name) == {i \in DOMAIN log : testcase_name(log[i].test) = name}

\* The suite a testsuite element is about: its name without "-<suffix>"
SuiteNameOf(testsuite) ==
    SubSeq(testsuite.attrs.name, 1,
           Len(testsuite.attrs.name) - Len(runner.outsuffix) - 1)

\* C3 (as claimed): a test reported through addFailure is recorded with
\* outcome FAILURE and one reported through addError with outcome ERROR, and
\* in every suite document `failures' is the number of the suite's tests
\* reported through addFailure and `errors' the number reported through
\* addError.
C3_FailuresAndErrorsAsReported ==
    /\ \A i \in DOMAIN log :
         /\ log[i].call = "addFailure" => infos[log[i].info].outcome = FAILURE
         /\ log[i].call = "addError" => infos[log[i].info].outcome = ERROR
    /\ \A k \in Complete :
         LET suites == ProducedSuites(reports[k])
         IN  \A x \in DOMAIN suites :
               LET mine == TestsOfSuite(SuiteNameOf(suites[x]))
               IN  /\ ParseNat(suites[x].attrs.failures)
                        = Cardinality({i \in mine : log[i].call = "addFailure"})
                   /\ ParseNat(suites[x].attrs.errors)
                        = Cardinality({i \in mine : log[i].call = "addError"})

\* C4 (as claimed): with elapsed_times = False every stopped record has
\* elapsed time zero, and every testcase and testsuite `time' attribute is
\* 0.000.
C4_TimingDisabledIsZero ==
    ~runner.elapsed_times =>
        /\ \A i \in Stopped : infos[log[i].info].elapsed_time = 0
        /\ \A k \in Complete :
             LET suites == ProducedSuites(reports[k])
             IN  \A x \in DOMAIN suites :
                   /\ suites[x].attrs.time = "0.000"
                   /\ \A y \in DOMAIN suites[x].children :
                        suites[x].children[y].tag = "testcase"
                           => suites[x].children[y].attrs.time = "0.000"

\* C5: while run is inside its try block sys.stdout and sys.stderr are
\* capturing writers around the writers installed before, and once run has
\* returned or raised (because the engine raised or because report generation
\* raised) they are again exactly the writers installed before.
C5_ChannelsRestored ==
    /\ pc \in {"testing", "reporting", "raising"} =>
         /\ sys_stdout.kind = "delegate"
         /\ sys_stdout.delegate[1].kind = "file"
         /\ sys_stdout.delegate[1].name = "stdout"
         /\ sys_stderr.kind = "delegate"
         /\ sys_stderr.delegate[1].kind = "file"
         /\ sys_stderr.delegate[1].name = "stderr"
    /\ pc \in {"new", "returned", "raised"} =>
         /\ sys_stdout.kind = "file" /\ sys_stdout.name = "stdout"
         /\ sys_stderr.kind = "file" /\ sys_stderr.name = "stderr"

\* C5 witness: run has raised because report generation raised, after a test
\* wrote to a channel, and the channels are restored
C5_Witness ==
    /\ pc = "raised"
    /\ reports # <<>> /\ reports[Len(reports)].fault > 0
    /\ writes > 0
    /\ sys_stdout.kind = "file"

\* C6 (as claimed): in per-test capture mode the output attached to a record
\* is exactly the text written between the startTest call and the outcome call
\* of its test.
C6_CapturedDuringTestOnly ==
    runner.per_test_output =>
        \A i \in DOMAIN log :
            log[i].info # 0 =>
                /\ infos[log[i].info].std_output = Some(log[i].out)
                /\ infos[log[i].info].err_output = Some(log[i].err)

\* The characters XML 1.0 allows: tab, newline, carriage return and
\* everything from U+0020 on but the surrogates, U+FFFE and U+FFFF
LegalXmlChar(c) ==
    /\ c >= 32 \/ c \in {9, 10, 13}
    /\ ~(c >= 55296 /\ c <= 57343)
    /\ c # 65534 /\ c # 65535

Sanitized(text) == SelectSeq(text, LegalXmlChar)

\* The diagnostic blocks of a testcase entry
DiagnosticsOf(testcase) ==
    SelectSeq(testcase.children,
              LAMBDA e : e.tag \notin {"system-out", "system-err"})

\* C7: a test reported through addSkip with reason r is recorded with outcome
\* SKIP; its testcase entry has one diagnostic block, `skipped', with
\* type="skip" and message r without its illegal characters; it is counted in
\* `tests' of its suite, and `failures' plus `errors' count only the tests
\* reported through addFailure and addError.
C7_SkippedRendering ==
    /\ \A i \in DOMAIN log :
         log[i].call = "addSkip" => infos[log[i].info].outcome = SKIP
    /\ \A k \in Complete :
         LET suites == ProducedSuites(reports[k])
         IN  /\ \A i \in DOMAIN log :
                  log[i].call = "addSkip" =>
                    /\ EntriesOf(suites, i) # {}
                    /\ \A sc \in EntriesOf(suites, i) :
                         LET blocks == DiagnosticsOf(suites[sc[1]].children[sc[2]])
                         IN  /\ Len(blocks) = 1
                             /\ blocks[1].tag = "skipped"
                             /\ blocks[1].attrs.type = "skip"
                             /\ blocks[1].attrs.message = Sanitized(log[i].arg)
             /\ \A x \in DOMAIN suites :
                  LET mine == TestsOfSuite(SuiteNameOf(suites[x]))
                  IN  /\ ParseNat(suites[x].attrs.tests) = Cardinality(mine)
                      /\ ParseNat(suites[x].attrs.failures)
                           + ParseNat(suites[x].attrs.errors)
                           = Cardinality({i \in mine :
                               log[i].call \in {"addFailure", "addError"}})

\* C7 witness: a complete report where a suite holds a skipped test, whose
\* reason has an illegal character, and an errored test
C7_Witness ==
    \E k \in Complete :
        \E i, j \in DOMAIN log :
            /\ log[i].call = "addSkip"
            /\ Sanitized(log[i].arg) # log[i].arg
            /\ log[j].call = "addError"
            /\ testcase_name(log[i].test) = testcase_name(log[j].test)
            /\ EntriesOf(ProducedSuites(reports[k]), i) # {}

\* C8: generate_reports leaves the records, the buckets, the counters and the
\* capture buffers as they were, and a second call on the same state produces
\* the same documents as the first.
C8_GenerateReportsIdempotent ==
    /\ (reports # <<>> /\ pc = "reporting") =>
          << result, infos, sys_stdout, sys_stderr >>
             = reports[Len(reports)].before
    /\ \A k \in DOMAIN reports :
          k > 1 => /\ reports[k].before = reports[k - 1].before
                   /\ Produced(reports[k]) = Produced(reports[k - 1])

\* C8 witness: two calls after three tests, in aggregate capture mode with
\* captured output, both of which wrote documents
C8_Witness ==
    /\ Len(reports) = 2
    /\ pc = "reporting"
    /\ Cardinality(Stopped) = 3
    /\ ~runner.per_test_output
    /\ getvalue(sys_stdout) # <<>>
    /\ Produced(reports[1]) # <<>>
    /\ Produced(reports[2]) = Produced(reports[1])

\* The names of the suites of the run
SuiteNames == {testcase_name(log[i].test) : i \in DOMAIN log}

\* The method names of the tests of a suite, in the order of the run
RECURSIVE MethodsOfSuite(_, _)
MethodsOfSuite(name, n) ==
    IF n = 0 THEN <<>>
    ELSE MethodsOfSuite(name, n - 1)
         \o (IF testcase_name(log[n].test) = name
             THEN <<log[n].test.method>> ELSE <<>>)

\* The testcase entries of a testsuite element are those of the suite `name'
HoldsSuite(testsuite, name) ==
    /\ testsuite.tag = "testsuite"
    /\ testsuite.attrs.name = name \o "-" \o runner.outsuffix
    /\ LET cases == TestcasesOf(testsuite)
       IN  /\ [y \in DOMAIN cases |-> cases[y].attrs.name]
                = MethodsOfSuite(name, Len(log))
           /\ \A y \in DOMAIN cases : cases[y].attrs.classname = name

\* C9: in directory mode, after generate_reports the directory exists (the
\* first call creates it), there is exactly one file per suite of the run,
\* named <dir>/TEST-<suite>-<suffix>.xml, and each file holds one standalone
\* document with the testcase entries of that suite only.
C9_DirectoryMode ==
    (reports # <<>> /\ runner.output = [kind |-> "str", path |-> "out"]) =>
        /\ "/w/out" \in fs.dirs
        /\ reports[1].ops[1].op = "makedirs"
        /\ DOMAIN fs.files =
             { "/w/out/TEST-" \o n \o "-" \o runner.outsuffix \o ".xml" :
                 n \in SuiteNames }
        /\ Cardinality(DOMAIN fs.files) = Cardinality(SuiteNames)
        /\ \A k \in DOMAIN reports :
             Cardinality({x \in DOMAIN reports[k].ops :
                            reports[k].ops[x].op = "write"})
                = Cardinality(SuiteNames)
        /\ \A n \in SuiteNames :
             LET chunks ==
                   fs.files["/w/out/TEST-" \o n \o "-" \o runner.outsuffix \o ".xml"]
             IN  /\ Len(chunks) = 1
                 /\ Len(chunks[1].document.children) = 1
                 /\ HoldsSuite(chunks[1].document.children[1], n)

\* C9 witness: a report into the directory of a run of two suites whose
\* suffix is the timestamp, with two files written
C9_Witness ==
    /\ reports # <<>>
    /\ runner.output.path = "out"
    /\ runner.outsuffix = Timestamp
    /\ Cardinality(SuiteNames) = 2
    /\ Cardinality(DOMAIN fs.files) = 2
    /\ "/w/out/TEST-pkg.TestB-20261101204800.xml" \in DOMAIN fs.files

\* The suite names in the order in which the suites first appear in the run
RECURSIVE FirstSeen(_)
FirstSeen(n) ==
    IF n = 0 THEN <<>>
    ELSE LET before == FirstSeen(n - 1)
             name   == testcase_name(log[n].test)
         IN  IF \E x \in DOMAIN before : before[x] = name THEN before
             ELSE Append(before, name)

\* C10: in single-file mode, after a complete generate_reports there is
\* exactly one file, <base>-<suffix>.xml, which holds one document whose
\* testsuites element has one testsuite section per suite of the run, in the
\* order in which the suites first appeared.
C10_SingleFileMode ==
    (/\ reports # <<>>
     /\ reports[Len(reports)].fault = 0
     /\ runner.output = [kind |-> "str", path |-> "out/results.xml"]) =>
        /\ DOMAIN fs.files = {"/w/out/results-" \o runner.outsuffix \o ".xml"}
        /\ LET chunks == fs.files["/w/out/results-" \o runner.outsuffix \o ".xml"]
               order  == FirstSeen(Len(log))
           IN  /\ Len(chunks) = 1
               /\ Len(chunks[1].document.children) = 1
               /\ chunks[1].document.children[1].tag = "testsuites"
               /\ LET sections == chunks[1].document.children[1].children
                  IN  /\ Len(sections) = Len(order)
                      /\ \A x \in DOMAIN sections :
                           HoldsSuite(sections[x], order[x])

\* C10 witness: a complete single-file report of a run in which the suite
\* pkg.TestB came first with an errored test and TestA passed afterwards
C10_Witness ==
    /\ reports # <<>>
    /\ reports[Len(reports)].fault = 0
    /\ runner.output.path = "out/results.xml"
    /\ FirstSeen(Len(log)) = <<"pkg.TestB", "TestA">>
    /\ log[1].call = "addError"
    /\ log[2].call = "addSuccess"
    /\ DOMAIN fs.files = {"/w/out/results-X.xml"}

\* The documents that the first n generate_reports calls have written
RECURSIVE ProducedUpTo(_)
ProducedUpTo(n) ==
    IF n = 0 THEN <<>>
    ELSE ProducedUpTo(n - 1) \o Produced(reports[n])

\* C11: in stream mode generate_reports does nothing but write to the stream:
\* the file system stays as it was (no directory, no file), the stream has
\* received exactly the documents of the calls so far, and a complete call
\* writes one standalone document per suite of the run, in the order in which
\* the suites first appeared.
C11_StreamMode ==
    runner.output.kind = "stream" =>
        /\ fs.dirs = {Cwd}
        /\ DOMAIN fs.files = {}
        /\ sink = ProducedUpTo(Len(reports))
        /\ \A k \in DOMAIN reports :
             /\ reports[k].fs_before = fs
             /\ \A x \in DOMAIN reports[k].ops :
                  reports[k].ops[x].op = "stream_write"
        /\ \A k \in Complete :
             LET written == Produced(reports[k])
                 order   == FirstSeen(Len(log))
             IN  /\ Len(written) = Len(order)
                 /\ \A x \in DOMAIN written :
                      /\ Len(written[x].document.children) = 1
                      /\ HoldsSuite(written[x].document.children[1], order[x])

\* C11 witness: a complete report to the stream of a run in which pkg.TestB
\* came first and TestA second; the stream holds their two documents in
\* that order
C11_Witness ==
    /\ runner.output.kind = "stream"
    /\ Complete # {}
    /\ Cardinality(Stopped) = 3
    /\ FirstSeen(Len(log)) = <<"pkg.TestB", "TestA">>
    /\ Len(sink) >= 2
    /\ HoldsSuite(sink[1].document.children[1], "pkg.TestB")
    /\ HoldsSuite(sink[2].document.children[1], "TestA")

\* The faulted generate_reports calls
Faulted == {k \in DOMAIN reports : reports[k].fault > 0}

\* What a path holds: None if there is no such file
FileState(filesys, path) ==
    IF path \in DOMAIN filesys.files THEN Some(filesys.files[path]) ELSE None

\* C12: when an operation of generate_reports fails (makedirs, open, write),
\* the fault leaves generate_reports and run (run raises, it does not
\* return), the call is not made again, nothing of the operations after the
\* failed one is done (no later directory, no later file, no later document:
\* a file whose document was not written is as before the call, or empty if
\* the call had opened it), and the collector and its records are as they
\* were before the call.
C12_FaultPropagates ==
    \A k \in Faulted :
        LET r == reports[k]
        IN  /\ k = Len(reports)
            /\ pc \in {"raising", "raised"}
            /\ << result, infos >> = << r.before[1], r.before[2] >>
            /\ Len(sink) = Len(r.sink_before)
                   + Cardinality({x \in 1..(r.fault - 1) :
                                    r.ops[x].op = "stream_write"})
            /\ \A x \in r.fault..Len(r.ops) :
                 /\ r.ops[x].op = "makedirs" => fs.dirs = r.fs_before.dirs
                 /\ r.ops[x].op = "open" =>
                      FileState(fs, r.ops[x].path)
                         = FileState(r.fs_before, r.ops[x].path)
                 /\ r.ops[x].op = "write" =>
                      FileState(fs, r.ops[x].path)
                         = IF \E y \in 1..(r.fault - 1) :
                                 /\ r.ops[y].op = "open"
                                 /\ r.ops[y].path = r.ops[x].path
                           THEN Some(<<>>)
                           ELSE FileState(r.fs_before, r.ops[x].path)

\* C12 witness: in directory mode the open of the second suite's file failed
\* after the first suite's file was written; run has raised, the second file
\* does not exist and the three records are still there
C12_Witness ==
    /\ pc = "raised"
    /\ runner.output.path = "out"
    /\ Faulted = {1}
    /\ reports[1].ops[reports[1].fault].op = "open"
    /\ Cardinality(DOMAIN fs.files) = 1
    /\ Cardinality(SuiteNames) = 2
    /\ Len(infos) = 3
    /\ result.test_index = 3

\* Every character of a text is one XML 1.0 allows
AllLegal(text) == \A x \in DOMAIN text : LegalXmlChar(text[x])

\* No message attribute and no text block of a node or of the nodes below it
\* has an illegal character
RECURSIVE IllegalFree(_)
IllegalFree(node) ==
    /\ node.tag = "#cdata" => AllLegal(node.attrs.data)
    /\ node.tag \in {"failure", "error", "skipped"} =>
         AllLegal(node.attrs.message)
    /\ \A x \in DOMAIN node.children : IllegalFree(node.children[x])

\* C13: xml_safe_unicode of a text returns the text without its illegal
\* XML 1.0 characters (below U+0020 other than tab, newline, carriage
\* return; U+D800..U+DFFF; U+FFFE; U+FFFF), the others in their order; it
\* returns (never raises) for a text and for a byte string of ASCII
\* characters, whatever illegal characters they have; applied to its result
\* it returns the result; and no message attribute, trace block or
\* captured-output block rendered by _report_testcase and _report_output has
\* an illegal character.
C13_SanitizeRemovesIllegal ==
    unit_call # None /\ unit_call.ret # None =>
        LET ret == unit_call.ret[1]
        IN  /\ (unit_call.fn = "xml_safe_unicode" /\ unit_call.kind = "text") =>
                  /\ ~ret.raised
                  /\ ret.value = Sanitized(unit_call.arg)
                  /\ AllLegal(ret.value)
                  /\ xml_safe_unicode(ret.value) = ret.value
            /\ (/\ unit_call.fn = "xml_safe_unicode"
                /\ unit_call.kind = "bytes"
                /\ \A x \in DOMAIN unit_call.arg : unit_call.arg[x] < 128) =>
                  /\ ~ret.raised
                  /\ ret.value = Sanitized(unit_call.arg)
            /\ unit_call.fn \in {"_report_testcase", "_report_output"} =>
                  /\ ~ret.raised
                  /\ IllegalFree(ret.value)

\* C13 witness: xml_safe_unicode has returned "\t " for the text "\t\x0B "
\* (the illegal character in the middle is gone)
C13_Witness ==
    /\ unit_call # None
    /\ unit_call.fn = "xml_safe_unicode"
    /\ unit_call.kind = "text"
    /\ unit_call.arg = <<9, 11, 32>>
    /\ unit_call.ret = Returned(<<9, 32>>)

\* The texts of the first n calls on the capturing writer, one after the other
RECURSIVE AllWritten(_)
AllWritten(n) ==
    IF n = 0 THEN <<>>
    ELSE AllWritten(n - 1) \o io_calls[n].text

\* The texts of the calls after the last reset among the first n calls
RECURSIVE SinceReset(_)
SinceReset(n) ==
    IF n = 0 THEN <<>>
    ELSE IF io_calls[n].op = "reset" THEN <<>>
    ELSE SinceReset(n - 1) \o io_calls[n].text

\* C14: after any sequence of write and reset calls on a _DelegateIO, the
\* wrapped writer has received all the written texts in order (resets do not
\* touch it), and the buffer holds the texts written since the last reset,
\* all of them if there was none.
C14_DelegateIO ==
    /\ sys_stdout.kind = "delegate"
    /\ sys_stdout.delegate[1].kind = "file"
    /\ sys_stdout.delegate[1].written = AllWritten(Len(io_calls))
    /\ sys_stdout.delegate[1].captured = <<>>
    /\ getvalue(sys_stdout) = SinceReset(Len(io_calls))

\* C14 witness: write "a", write "b\n", reset, write "a": the wrapped writer
\* has "ab\na" and the buffer has "a"
C14_Witness ==
    /\ Len(io_calls) = 4
    /\ io_calls[3].op = "reset"
    /\ io_calls[1].op = "write" /\ io_calls[2].op = "write"
    /\ io_calls[4].op = "write"
    /\ sys_stdout.delegate[1].written = <<97, 98, 10, 97>>
    /\ getvalue(sys_stdout) = <<97>>

\* The grouping that the k-th generate_reports call built
GroupingOf(k) == get_info_by_testcase(reports[k].before[1], reports[k].before[2])

\* The records of the four outcome collections at the k-th call
BucketsOf(k) ==
    LET self == reports[k].before[1]
    IN  self.successes \o Firsts(self.failures) \o Firsts(self.errors)
           \o Firsts(self.skipped)

\* C15: the grouping that generate_reports builds is a partition of the
\* records of the four outcome collections (every record is in exactly one
\* group, the group of its suite name, and the names of the groups differ);
\* in every group the execution indices increase strictly; the groups are in
\* the order of their smallest execution index.
C15_GroupingIsOrderedPartition ==
    \A k \in DOMAIN reports :
        LET groups  == GroupingOf(k)
            heap    == reports[k].before[2]
            buckets == BucketsOf(k)
        IN  /\ \A x, y \in DOMAIN groups :
                 x # y => groups[x].name # groups[y].name
            /\ \A b \in DOMAIN buckets :
                 Cardinality({ xy \in (DOMAIN groups) \X (1..Len(buckets)) :
                                 /\ xy[2] \in DOMAIN groups[xy[1]].tests
                                 /\ groups[xy[1]].tests[xy[2]] = buckets[b] }) = 1
            /\ SumSeq([x \in DOMAIN groups |-> Len(groups[x].tests)])
                 = Len(buckets)
            /\ \A x \in DOMAIN groups :
                 LET tests == groups[x].tests
                 IN  /\ tests # <<>>
                     /\ \A y \in DOMAIN tests :
                          /\ heap[tests[y]].test_name = groups[x].name
                          /\ y > 1 => heap[tests[y - 1]].test_index
                                         < heap[tests[y]].test_index
            /\ \A x \in DOMAIN groups :
                 x > 1 => heap[groups[x - 1].tests[1]].test_index
                            < heap[groups[x].tests[1]].test_index

\* C15 witness: the run pkg.TestB, TestA, TestA in which the first test
\* was skipped, the second errored and the third passed: the collections
\* hold the records in the order third, second, first, and the grouping has
\* pkg.TestB with the first and then TestA with the second and the third
C15_Witness ==
    /\ reports # <<>>
    /\ Len(log) = 3
    /\ log[1].call = "addSkip" /\ log[2].call = "addError"
    /\ log[3].call = "addSuccess"
    /\ BucketsOf(1) = << log[3].info, log[2].info, log[1].info >>
    /\ GroupingOf(1) =
         << [name |-> "pkg.TestB", tests |-> << log[1].info >>],
            [name |-> "TestA", tests |-> << log[2].info, log[3].info >>] >>

\* C16, in every state: a callback is pending exactly between the outcome
\* call and the stop call of a test, and it is the callback of that test's
\* record; the counter is the number of stop calls.
C16_Pending ==
    /\ result.callback # None <=>
         (inflight # None /\ inflight[1].stage = "outcome")
    /\ result.callback # None =>
         result.callback[1].test_info = log[Len(log)].info
    /\ result.test_index = Cardinality(Stopped)

\* C16, in every step: a callback appears only with the new record of an
\* outcome call, for that record; a pending callback is never replaced by
\* another one; it goes away only in a stop call, which has invoked it (the
\* record, not finished before, now has the index the counter had) and has
\* incremented the counter; the counter moves in no other step.
C16_Step ==
    /\ (result.callback = None /\ result'.callback # None) =>
          /\ Len(infos') = Len(infos) + 1
          /\ result'.callback[1].test_info = Len(infos')
          /\ result'.test_index = result.test_index
    /\ (result.callback # None /\ result'.callback # None) =>
          result'.callback = result.callback
    /\ (result.callback # None /\ result'.callback = None) =>
          LET id == result.callback[1].test_info
          IN  /\ log[Len(log)].info = id /\ log[Len(log)].stop_no = 0
              /\ log'[Len(log)].stop_no = Cardinality(Stopped) + 1
              /\ infos'[id].test_index = result.test_index
              /\ \A other \in DOMAIN infos : other # id => infos'[other] = infos[other]
              /\ result'.test_index = result.test_index + 1
    /\ result'.test_index # result.test_index =>
          (result.callback # None /\ result'.callback = None)

\* C16: under the lifecycle contract every outcome call schedules one
\* callback, the stop call of the same test invokes it once and clears it,
\* no callback is pending after a stop call, none is overwritten while it is
\* pending, and the counter is the number of stop calls.
C16_CallbackOncePerTest == []C16_Pending /\ [][C16_Step]_vars

\* C16 witness: the third test has been stopped after an outcome call of
\* each kind; no callback is pending and the counter is three
C16_Witness ==
    /\ Cardinality(Stopped) = 3
    /\ inflight = None
    /\ {log[i].call : i \in DOMAIN log} = {"addSuccess", "addFailure", "addSkip"}
    /\ result.callback = None
    /\ result.test_index = 3

\* C17 (as claimed): in single-file mode, when generate_reports has ended
\* (returned or raised), the target file holds the complete combined document
\* or is as it was before the call (absent if it was absent, its contents
\* untouched if it was there).
C17_SingleFileAllOrNothing ==
    (reports # <<>> /\ IsSingleFileMode(runner)) =>
        LET r      == reports[Len(reports)]
            target == r.ops[Len(r.ops)]
        IN  \/ FileState(fs, target.path) = Some(target.content)
            \/ FileState(fs, target.path) = FileState(r.fs_before, target.path)

\* The records whose test has been stopped, as heap indices
Finalized == {log[i].info : i \in Stopped}

\* s is the beginning of t
IsPrefix(s, t) == Len(s) <= Len(t) /\ SubSeq(t, 1, Len(s)) = s

\* C18, in every step: a record whose test has been stopped stays as it is
\* (outcome, index, elapsed time, diagnostic payload, captured output); the
\* only record a step changes is the one of the test in flight; the outcome
\* collections keep the entries they have, and a new entry is the new record
\* of the test in flight; the configuration of the collector stays.
C18_Step ==
    /\ DOMAIN infos \subseteq DOMAIN infos'
    /\ \A id \in Finalized : infos'[id] = infos[id]
    /\ \A id \in DOMAIN infos :
         infos'[id] # infos[id] =>
            /\ inflight # None
            /\ id = log[Len(log)].info
    /\ IsPrefix(result.successes, result'.successes)
    /\ IsPrefix(result.failures, result'.failures)
    /\ IsPrefix(result.errors, result'.errors)
    /\ IsPrefix(result.skipped, result'.skipped)
    /\ LET added == SubSeq(result'.successes, Len(result.successes) + 1,
                           Len(result'.successes))
                     \o Firsts(SubSeq(result'.failures, Len(result.failures) + 1,
                                      Len(result'.failures)))
                     \o Firsts(SubSeq(result'.errors, Len(result.errors) + 1,
                                      Len(result'.errors)))
                     \o Firsts(SubSeq(result'.skipped, Len(result.skipped) + 1,
                                      Len(result'.skipped)))
       IN  added # <<>> =>
             /\ added = << Len(infos) + 1 >>
             /\ inflight # None /\ inflight[1].stage = "started"
    /\ result'.elapsed_times = result.elapsed_times
    /\ result'.per_test_output = result.per_test_output
    /\ result'.encoding = result.encoding

\* C18: once a record has been finalized at the stop call of its test, no
\* later lifecycle call changes it: every start, outcome and stop call
\* changes only the record of the test in flight, besides the times, the
\* pending callback and the counters of the collector.
C18_FinalizedRecordsAreFrozen == [][C18_Step]_vars

\* C18 witness: three tests have been stopped; the record of the first (an
\* error, stopped at once) still has index 0 and elapsed time 0 after the
\* third was finalized with index 2 and elapsed time 1 ms
C18_Witness ==
    /\ Cardinality(Stopped) = 3
    /\ log[1].call = "addError"
    /\ infos[log[1].info].test_index = 0
    /\ infos[log[1].info].elapsed_time = 0
    /\ infos[log[1].info].outcome = ERROR
    /\ infos[log[3].info].test_index = 2
    /\ infos[log[3].info].elapsed_time = 1

\* The system-out / system-err blocks among the children of a node
OutputBlocksOf(node) ==
    SelectSeq(node.children, LAMBDA e : e.tag \in {"system-out", "system-err"})

\* The text of an output block
BlockText(block) == block.children[1].attrs.data

\* C19: in every suite document, the suite carries its system-out and
\* system-err blocks, holding the whole captured output of the run, if and
\* only if per-test capture is off; a testcase entry carries output blocks only
\* if per-test capture is on (then they hold the output of its record); so
\* no suite has output blocks at both levels.
C19_OutputAtOneLevel ==
    \A k \in Complete :
        LET suites == ProducedSuites(reports[k])
            out    == reports[k].before[3]
            err    == reports[k].before[4]
        IN  \A x \in DOMAIN suites :
              LET mine  == OutputBlocksOf(suites[x])
                  cases == TestcasesOf(suites[x])
              IN  /\ mine # <<>> <=> ~runner.per_test_output
                  /\ mine # <<>> =>
                       /\ [y \in DOMAIN mine |-> mine[y].tag]
                            = << "system-out", "system-err" >>
                       /\ BlockText(mine[1]) = Sanitized(getvalue(out))
                       /\ BlockText(mine[2]) = Sanitized(getvalue(err))
                  /\ \A y \in DOMAIN cases :
                       OutputBlocksOf(cases[y]) # <<>> => runner.per_test_output
                  /\ ~ /\ mine # <<>>
                       /\ \E y \in DOMAIN cases : OutputBlocksOf(cases[y]) # <<>>

\* C19 witness: a complete report in per-test capture mode of a run in
\* which a test wrote to stdout: its testcase entry has a system-out block
\* and its suite has no output block
C19_Witness ==
    \E k \in Complete :
        LET suites == ProducedSuites(reports[k])
        IN  /\ runner.per_test_output
            /\ writes > 0
            /\ \E x \in DOMAIN suites :
                 /\ OutputBlocksOf(suites[x]) = <<>>
                 /\ \E y \in DOMAIN suites[x].children :
                      /\ suites[x].children[y].tag = "testcase"
                      /\ OutputBlocksOf(suites[x].children[y]) # <<>>
                      /\ OutputBlocksOf(suites[x].children[y])[1].tag
                           = "system-out"

\* The first line of a text: what comes before its first newline
RECURSIVE FirstLine(_)
FirstLine(text) ==
    IF text = <<>> \/ text[1] = 10 THEN <<>>
    ELSE <<text[1]>> \o FirstLine(Tail(text))

\* C20 (as claimed): the diagnostic block of a test reported through
\* addFailure or addError has as `message' the first line of the error's text,
\* without its illegal characters, whatever the number of lines of the text, and
\* the trace is the block's text content.
C20_MessageIsFirstLine ==
    \A k \in Complete :
        LET suites == ProducedSuites(reports[k])
        IN  \A i \in DOMAIN log :
              log[i].call \in {"addFailure", "addError"} =>
                \A sc \in EntriesOf(suites, i) :
                    LET blocks == DiagnosticsOf(suites[sc[1]].children[sc[2]])
                    IN  /\ Len(blocks) = 1
                        /\ blocks[1].attrs.message
                             = Sanitized(FirstLine(log[i].arg))
                        /\ BlockText(blocks[1])
                             = Sanitized(infos[log[i].info].test_exception_info)

\* The captured standard output (or error output) of the first n records, one
\* after the other
RECURSIVE AttachedOut(_)
AttachedOut(n) ==
    IF n = 0 THEN <<>>
    ELSE AttachedOut(n - 1) \o infos[n].std_output[1]

RECURSIVE AttachedErr(_)
AttachedErr(n) ==
    IF n = 0 THEN <<>>
    ELSE AttachedErr(n - 1) \o infos[n].err_output[1]

\* C21, in every state of per-test capture mode while the capturing writers
\* are installed: every record has a snapshot of both channels; what the
\* records hold, in the order of the outcome calls, followed by what is in the
\* buffer, is exactly what was written to the channel, so that no written
\* text is in two records; and between the outcome call and the stop call of
\* a test both buffers are empty.
C21_Snapshots ==
    (runner.per_test_output /\ sys_stdout.kind = "delegate") =>
        /\ \A id \in DOMAIN infos :
             infos[id].std_output # None /\ infos[id].err_output # None
        /\ AttachedOut(Len(infos)) \o getvalue(sys_stdout)
             = sys_stdout.delegate[1].written
        /\ AttachedErr(Len(infos)) \o getvalue(sys_stderr)
             = sys_stderr.delegate[1].written
        /\ (inflight # None /\ inflight[1].stage = "outcome") =>
             /\ getvalue(sys_stdout) = <<>>
             /\ getvalue(sys_stderr) = <<>>

\* C21, in every step of per-test capture mode that is an outcome call (it
\* adds a record): the new record holds what the buffers held before the
\* call, both buffers are empty after it, and the wrapped writers are as
\* they were.
C21_Step ==
    (runner.per_test_output /\ Len(infos') = Len(infos) + 1) =>
        /\ log'[Len(log)].call
             \in {"addSuccess", "addFailure", "addError", "addSkip"}
        /\ infos'[Len(infos')].std_output = Some(getvalue(sys_stdout))
        /\ infos'[Len(infos')].err_output = Some(getvalue(sys_stderr))
        /\ getvalue(sys_stdout') = <<>>
        /\ getvalue(sys_stderr') = <<>>
        /\ sys_stdout'.delegate = sys_stdout.delegate
        /\ sys_stderr'.delegate = sys_stderr.delegate

\* C21: in per-test capture mode every outcome call (addSuccess, addFailure,
\* addError, addSkip) copies the capture buffers into the record and then
\* resets both, so both buffers are empty after the call and no written text
\* is attached to more than one record.
C21_SnapshotThenReset == []C21_Snapshots /\ [][C21_Step]_vars

\* C21 witness: in per-test capture mode the first test wrote to stdout and
\* was reported as skipped, the second passed: the first record holds the
\* text, the second holds nothing, and the buffers are empty
C21_Witness ==
    /\ runner.per_test_output
    /\ sys_stdout.kind = "delegate"
    /\ Len(infos) >= 2
    /\ log[1].call = "addSkip" /\ log[2].call = "addSuccess"
    /\ log[1].out # <<>>
    /\ infos[log[1].info].std_output = Some(log[1].out)
    /\ infos[log[2].info].std_output = Some(<<>>)
    /\ getvalue(sys_stdout) = <<>>
    /\ sys_stdout.delegate[1].written = log[1].out

====
